---- MODULE Spec2Model ----
(***************************************************************************)
(* State-machine model of the chat/canvas workspace (App, ChatPanel,       *)
(* ChatSidebar, CanvasPanel, CanvasMenu, TextBlock, ResizableDivider).      *)
(*                                                                         *)
(* Conventions                                                             *)
(*  - React state is modelled by one variable per useState cell.  A handler*)
(*    reads the unprimed variables (the closure of the render it was       *)
(*    created in) and its setState calls give the primed ones.             *)
(*  - Effects that run after the render a handler causes are part of the   *)
(*    handler's action, except the drop effect, which is the step that     *)
(*    follows handleTextDrag; no other event is taken while it is due.     *)
(*    The panel-width effect of App is a step of its own as well, one run  *)
(*    per step, since each run may schedule the next.                      *)
(*  - Identifiers are strings as in the code.  Date.now() is modelled by   *)
(*    one counter per identifier namespace.                                *)
(*  - Lengths are integer pixels; the zoom factor is fixed point with      *)
(*    ZoomScale standing for 1.0, rounded to nearest after each operation. *)
(*  - A text is the pair <<chars, spaces>>: text.length and the number of  *)
(*    ' ' separators, which is all calculateInitialSize reads.  <<>> is    *)
(*    the null text; <<>> is also the null point.                          *)
(***************************************************************************)
EXTENDS Integers, Sequences, FiniteSets, TLC

VARIABLES
    \* ---- CanvasPanel.tsx
    canvases, currentCanvasId, nodes, connections,
    selectedNode, draggingNode, dragOffset, zoom, pan, isPanning, panStart,
    connectingFrom, connectionStart,
    \* ---- TextBlock.tsx (the one block whose resize handle was pressed)
    resizingNode, resizeStart,
    \* ---- useDebounce timer of CanvasPanel and reference identity of the
    \*      working arrays with the stored ones
    debounce, synced,
    \* ---- App.tsx
    draggedText, sourceMsgId, sourceChatId, highlightedMessageId, currentChatId,
    \* ---- ChatPanel.tsx
    chatSessions, isTyping, replyTimers,
    \* ---- environment: mouse button, Date.now() per identifier namespace
    buttonDown, nodeClock, connClock, canvasClock, chatClock, msgClock,
    \* ---- history: number of handleTextDrag calls, working copy of the
    \*      canvas that was last switched away from
    transfers, lastLeft,
    \* ---- inputs and results of the pure-function specification
    textA, textB, sizeA, sizeB,
    \* ---- App.tsx panel layout and ResizableDivider.tsx
    containerWidth, leftPanelWidth, isDragging, startX, startWidth

vars == <<canvases, currentCanvasId, nodes, connections,
          selectedNode, draggingNode, dragOffset, zoom, pan, isPanning, panStart,
          connectingFrom, connectionStart, resizingNode, resizeStart,
          debounce, synced,
          draggedText, sourceMsgId, sourceChatId, highlightedMessageId, currentChatId,
          chatSessions, isTyping, replyTimers,
          buttonDown, nodeClock, connClock, canvasClock, chatClock, msgClock,
          transfers, lastLeft, textA, textB, sizeA, sizeB,
          containerWidth, leftPanelWidth, isDragging, startX, startWidth>>

canvasStoreVars == <<canvases, currentCanvasId, nodes, connections, debounce, synced>>
pointerVars == <<selectedNode, draggingNode, dragOffset, isPanning, panStart,
                 connectingFrom, connectionStart, resizingNode, resizeStart, buttonDown>>
viewVars == <<zoom, pan>>
bridgeVars == <<draggedText, sourceMsgId, sourceChatId, transfers>>
chatVars == <<highlightedMessageId, currentChatId, chatSessions, isTyping,
              replyTimers, chatClock, msgClock>>
clockVars == <<nodeClock, connClock, canvasClock>>
sizeVars == <<textA, textB, sizeA, sizeB>>
layoutVars == <<containerWidth, leftPanelWidth, isDragging, startX, startWidth>>

-----------------------------------------------------------------------------
\* Bounds of the model

MaxNodes == 2          \* blocks created in one behaviour
MaxConns == 1          \* connections created in one behaviour
MaxCanvases == 2       \* canvases in one behaviour, the default one included
MaxChats == 4          \* chat sessions in one behaviour, the initial ones included
MaxSends == 2          \* user messages sent in one behaviour
MaxDragMsgs == 1       \* messages of the active chat text is selected in
MaxCharK == 37         \* text lengths are 0, CharStep, ..., MaxCharK * CharStep
CharStep == 13
MaxSpaceK == 10        \* separator counts are 0, SpaceStep, ..., MaxSpaceK * SpaceStep
SpaceStep == 6

\* The canvas container on screen (layout of the page)
ViewLeft == 501
ViewTop == 73
ViewWidth == 800
ViewHeight == 600

-----------------------------------------------------------------------------
\* Values

NULL == "null"
UNDEFINED == "undefined"
NoText == <<>>
NoPoint == <<>>

ZoomScale == 1000

Min(a, b) == IF a <= b THEN a ELSE b
Max(a, b) == IF a >= b THEN a ELSE b

\* Array.prototype.find / some on the id field
HasId(seq, id) == \E i \in 1..Len(seq) : seq[i].id = id
Find(seq, id) == seq[CHOOSE i \in 1..Len(seq) : seq[i].id = id /\ \A j \in 1..(i-1) : seq[j].id # id]
Ids(seq) == {seq[i].id : i \in 1..Len(seq)}
MapSeq(seq, F(_)) == [i \in 1..Len(seq) |-> F(seq[i])]

\* Date.now().toString() and the template literals built from Date.now()
NodeId(k) == "node-" \o ToString(k)
ConnId(k) == "conn-" \o ToString(k)
CanvasId(k) == "canvas-" \o ToString(k)
ChatId(k) == "new-chat-" \o ToString(k)
MsgId(k) == "msg-" \o ToString(k)

-----------------------------------------------------------------------------
\* Inputs

\* clientX / clientY of mouse events
\* (their offsets from the view origin are multiples of 99, which the zoom
\* factors 0.9 and 1.1 divide exactly)
MousePoints == {<<600, 172>>, <<1491, 766>>}
\* the one place the mouse is pressed and moved at where only the structure
\* of the canvas is explored
PressPoints == {<<600, 172>>}
\* the connection handles clicked: top, right (of top, right, bottom, left)
MaxHandle == 2

\* window.getSelection().toString(): leading and trailing white space around
\* the text String.prototype.trim() leaves
Selections ==
    { [lead |-> 1, text |-> <<130, 33>>, trail |-> 2],
      [lead |-> 2, text |-> <<0, 0>>, trail |-> 0] }

Trim(sel) == sel.text
Truthy(text) == text # NoText /\ text[1] > 0

\* positions kept by the model
MaxCoord == 1000
InRange(v) == -MaxCoord <= v /\ v <= MaxCoord

-----------------------------------------------------------------------------
\* CanvasPanel.tsx: pure helpers

colors == 10

\* the width is not capped at 400
calculateInitialSize_Uncapped(text) ==
    LET chars == text[1]
        words == text[2] + 1
        width2 == IF chars > 100 THEN 480 + (chars - 100) * 3 ELSE 480
        height0 == IF chars > 100
                     THEN Min(250, 120 + ((chars - 100) \div 60) * 25)
                     ELSE 120
        height == IF words > 20
                    THEN Min(300, height0 + ((words - 20) \div 12) * 20)
                    ELSE height0
    IN  [width |-> (width2 + 1) \div 2, height |-> height]

calculateInitialSize(text) ==
    LET chars == text[1]
        words == text[2] + 1
        \* width is kept doubled until Math.round so that * 1.5 is exact
        width2 == IF chars > 100 THEN Min(800, 480 + (chars - 100) * 3) ELSE 480
        height0 == IF chars > 100
                     THEN Min(250, 120 + ((chars - 100) \div 60) * 25)
                     ELSE 120
        height == IF words > 20
                    THEN Min(300, height0 + ((words - 20) \div 12) * 20)
                    ELSE height0
    IN  [width |-> (width2 + 1) \div 2, height |-> height]

\* canvasRef.current.getBoundingClientRect(): the box of the transformed
\* element (translate(pan) scale(zoom), origin 0 0)
Rect == [left |-> ViewLeft + pan[1], top |-> ViewTop + pan[2],
         width |-> (ViewWidth * zoom) \div ZoomScale,
         height |-> (ViewHeight * zoom) \div ZoomScale]

\* (v) / zoom
DivZoom(v) == (v * ZoomScale) \div zoom

\* (e.clientX - rect.left - pan.x) / zoom, (e.clientY - rect.top - pan.y) / zoom
ToCanvas(pt) == << DivZoom(pt[1] - Rect.left - pan[1]), DivZoom(pt[2] - Rect.top - pan[2]) >>

\* where the browser paints a canvas coordinate: the canvas element sits at
\* (ViewLeft, ViewTop) and carries transform: translate(pan) scale(zoom) with
\* transform-origin 0 0
ToScreen(c) == << ViewLeft + pan[1] + (c[1] * zoom) \div ZoomScale,
                  ViewTop + pan[2] + (c[2] * zoom) \div ZoomScale >>

\* the top-left corner instead of the centre
Center_TopLeft(x, y, width, height) == << x, y >>

Center(x, y, width, height) == << x + width \div 2, y + height \div 2 >>

\* the debounced callback holds the updateCanvasData of the render it was
\* armed in
Armed(cid, ns, cs) == << [canvasId |-> cid, nodes |-> ns, connections |-> cs] >>

\* no effect is waiting to run
Idle == draggedText = NoText

-----------------------------------------------------------------------------
\* App.tsx / ChatPanel.tsx: the Drag Bridge

handleTextDrag(text, messageId, chatId) ==
    /\ draggedText' = text
    /\ sourceMsgId' = messageId
    /\ sourceChatId' = chatId

\* the slot is left as it is
handleTextDragComplete_Noop ==
    UNCHANGED <<draggedText, sourceMsgId, sourceChatId>>

\* the text is cleared, the source ids are left
handleTextDragComplete_KeepSource ==
    /\ draggedText' = NoText
    /\ UNCHANGED <<sourceMsgId, sourceChatId>>

handleTextDragComplete ==
    /\ draggedText' = NoText
    /\ sourceMsgId' = NULL
    /\ sourceChatId' = NULL

\* the messages of the active chat (ChatPanel: currentChat?.messages || [])
CurrentMessages ==
    IF HasId(chatSessions, currentChatId) THEN Find(chatSessions, currentChatId).messages ELSE <<>>

\* ChatPanel.handleMouseUp(messageId) -> handleTextSelection -> onTextDrag
HandleTextSelection(messageId, sel) ==
    /\ Idle
    /\ transfers < MaxNodes
    /\ \E i \in 1..Min(MaxDragMsgs, Len(CurrentMessages)) : CurrentMessages[i].id = messageId
    /\ Truthy(Trim(sel))
    /\ handleTextDrag(Trim(sel), messageId, currentChatId)
    /\ transfers' = transfers + 1
    /\ UNCHANGED <<canvasStoreVars, pointerVars, viewVars, chatVars, clockVars, lastLeft, sizeVars, layoutVars>>

\* x || undefined
OrUndefined(x) == IF x = NULL \/ x = "" THEN UNDEFINED ELSE x

\* CanvasPanel: the effect on draggedText
DropEffect ==
    /\ Truthy(draggedText)
    /\ LET centerX == DivZoom(Rect.width \div 2 - pan[1])
           centerY == DivZoom(Rect.height \div 2 - pan[2])
           size == calculateInitialSize(draggedText)
           newNode == [id |-> NodeId(nodeClock + 1),
                       text |-> draggedText,
                       x |-> centerX - size.width \div 2,
                       y |-> centerY - size.height \div 2,
                       width |-> size.width,
                       height |-> size.height,
                       sourceMessageId |-> OrUndefined(sourceMsgId),
                       sourceChatId |-> OrUndefined(sourceChatId),
                       color |-> Len(nodes) % colors]
       IN  /\ nodes' = Append(nodes, newNode)
           /\ debounce' = Armed(currentCanvasId, nodes', connections)
    /\ handleTextDragComplete
    /\ nodeClock' = nodeClock + 1
    /\ synced' = FALSE
    /\ UNCHANGED <<canvases, currentCanvasId, connections, pointerVars, viewVars, chatVars,
                   connClock, canvasClock, transfers, lastLeft, sizeVars, layoutVars>>

-----------------------------------------------------------------------------
\* CanvasPanel.tsx: canvas store

\* the entry is not selected by id
updateCanvasData_AnyCanvas(prev, cid, ns, cs) ==
    MapSeq(prev, LAMBDA canvas : [canvas EXCEPT !.nodes = ns, !.connections = cs])

\* the connections are not written
updateCanvasData_NodesOnly(prev, cid, ns, cs) ==
    MapSeq(prev, LAMBDA canvas :
        IF canvas.id = cid THEN [canvas EXCEPT !.nodes = ns] ELSE canvas)

updateCanvasData(prev, cid, ns, cs) ==
    MapSeq(prev, LAMBDA canvas :
        IF canvas.id = cid THEN [canvas EXCEPT !.nodes = ns, !.connections = cs] ELSE canvas)

\* the debounce timer fires
DebounceFire ==
    /\ Idle
    /\ debounce # <<>>
    /\ canvases' = updateCanvasData(canvases, debounce[1].canvasId,
                                    debounce[1].nodes, debounce[1].connections)
    /\ debounce' = <<>>
    /\ synced' = IF debounce[1].canvasId = currentCanvasId THEN TRUE ELSE synced
    /\ UNCHANGED <<currentCanvasId, nodes, connections, pointerVars, viewVars, bridgeVars,
                   chatVars, clockVars, lastLeft, sizeVars, layoutVars>>

\* TextBlock components are keyed by node id: the local state of a block is
\* lost when its node leaves the rendered list
StillMounted(id, ns) == IF id # NULL /\ HasId(ns, id) THEN id ELSE NULL

\* the state updates of handleCanvasSelect, reading the canvas list cvs of
\* the render the handler belongs to
CanvasSelectEffect(cvs, canvasId) ==
    IF HasId(cvs, canvasId)
      THEN LET canvas == Find(cvs, canvasId)
               rearm == canvasId # currentCanvasId \/ ~synced
           IN  /\ currentCanvasId' = canvasId
               /\ nodes' = canvas.nodes
               /\ connections' = canvas.connections
               /\ selectedNode' = NULL
               /\ connectingFrom' = NULL
               /\ connectionStart' = NoPoint
               /\ debounce' = IF rearm THEN Armed(canvasId, canvas.nodes, canvas.connections)
                                       ELSE debounce
               /\ synced' = TRUE
               /\ resizingNode' = StillMounted(resizingNode, canvas.nodes)
               /\ lastLeft' = IF canvasId # currentCanvasId
                                THEN << [id |-> currentCanvasId, nodes |-> nodes,
                                         connections |-> connections] >>
                                ELSE lastLeft
      ELSE UNCHANGED <<currentCanvasId, nodes, connections, selectedNode, connectingFrom,
                       connectionStart, debounce, synced, resizingNode, lastLeft>>

handleCanvasSelect(canvasId) ==
    /\ Idle
    /\ CanvasSelectEffect(canvases, canvasId)
    /\ UNCHANGED <<canvases, draggingNode, dragOffset, isPanning, panStart, resizeStart,
                   buttonDown, viewVars, bridgeVars, chatVars, clockVars, sizeVars, layoutVars>>

handleNewCanvas ==
    /\ Idle
    /\ canvasClock + 1 < MaxCanvases
    /\ LET newCanvas == [id |-> CanvasId(canvasClock + 1), nodes |-> <<>>, connections |-> <<>>]
       IN  /\ canvases' = Append(canvases, newCanvas)
           /\ CanvasSelectEffect(canvases, newCanvas.id)
    /\ canvasClock' = canvasClock + 1
    /\ UNCHANGED <<draggingNode, dragOffset, isPanning, panStart, resizeStart,
                   buttonDown, viewVars, bridgeVars, chatVars, nodeClock, connClock, sizeVars, layoutVars>>

\* the deleted canvas is never taken for the active one
DeletesActive_Never(canvasId) == FALSE

\* if (currentCanvasId === canvasId)
DeletesActive(canvasId) == currentCanvasId = canvasId

handleCanvasDelete(canvasId) ==
    /\ Idle
    /\ IF Len(canvases) <= 1
         THEN \* Don't delete the last canvas
              UNCHANGED <<canvases, currentCanvasId, nodes, connections, selectedNode,
                          connectingFrom, connectionStart, debounce, synced, resizingNode,
                          lastLeft>>
         ELSE /\ canvases' = SelectSeq(canvases, LAMBDA c : c.id # canvasId)
              /\ IF DeletesActive(canvasId)
                   THEN LET remainingCanvases == SelectSeq(canvases, LAMBDA c : c.id # canvasId)
                        IN  CanvasSelectEffect(canvases, remainingCanvases[1].id)
                   ELSE UNCHANGED <<currentCanvasId, nodes, connections, selectedNode,
                                    connectingFrom, connectionStart, debounce, synced,
                                    resizingNode, lastLeft>>
    /\ UNCHANGED <<draggingNode, dragOffset, isPanning, panStart, resizeStart,
                   buttonDown, viewVars, bridgeVars, chatVars, clockVars, sizeVars, layoutVars>>

-----------------------------------------------------------------------------
\* CanvasPanel.tsx / TextBlock.tsx: pointer handlers

\* the source block is not looked up
EndpointsPresent_SourceUnchecked(nodeId) ==
    HasId(nodes, nodeId) /\ connectionStart # NoPoint

\* if (fromNode && toNode && connectionStart)
EndpointsPresent(nodeId) ==
    HasId(nodes, connectingFrom) /\ HasId(nodes, nodeId) /\ connectionStart # NoPoint

handleBlockMouseDown(nodeId, pt) ==
    /\ Idle
    /\ ~buttonDown
    /\ HasId(nodes, nodeId)
    /\ resizingNode # nodeId              \* TextBlock: !isResizing && onMouseDown(e, id)
    /\ buttonDown' = TRUE
    /\ IF connectingFrom # NULL /\ connectingFrom # nodeId
         THEN \* complete connection
              /\ IF EndpointsPresent(nodeId)
                   THEN LET toNode == Find(nodes, nodeId)
                            newConnection ==
                                [id |-> ConnId(connClock + 1),
                                 from |-> connectingFrom,
                                 to |-> nodeId,
                                 fromPoint |-> connectionStart,
                                 toPoint |-> Center(toNode.x, toNode.y, toNode.width, toNode.height)]
                        IN  /\ connClock < MaxConns
                            /\ connections' = Append(connections, newConnection)
                            /\ connClock' = connClock + 1
                            /\ debounce' = Armed(currentCanvasId, nodes, connections')
                            /\ synced' = FALSE
                   ELSE UNCHANGED <<connections, connClock, debounce, synced>>
              /\ connectingFrom' = NULL
              /\ connectionStart' = NoPoint
              /\ UNCHANGED <<draggingNode, selectedNode, dragOffset>>
         ELSE \* start dragging
              /\ draggingNode' = nodeId
              /\ selectedNode' = nodeId
              /\ LET node == Find(nodes, nodeId)
                     c == ToCanvas(pt)
                 IN  dragOffset' = << c[1] - node.x, c[2] - node.y >>
              /\ UNCHANGED <<connections, connClock, debounce, synced, connectingFrom,
                             connectionStart>>
    /\ UNCHANGED <<canvases, currentCanvasId, nodes, isPanning, panStart, resizingNode,
                   resizeStart, viewVars, bridgeVars, chatVars, nodeClock, canvasClock,
                   lastLeft, sizeVars, layoutVars>>

\* TextBlock.updateConnectionPoints: top, right, bottom, left
ConnectionPoints(node) ==
    << << node.x + node.width \div 2, node.y >>,
       << node.x + node.width, node.y + node.height \div 2 >>,
       << node.x + node.width \div 2, node.y + node.height >>,
       << node.x, node.y + node.height \div 2 >> >>

\* TextBlock.handleConnectionPointClick -> CanvasPanel.handleConnectionStart
handleConnectionStart(nodeId, k) ==
    /\ Idle
    /\ ~buttonDown
    /\ HasId(nodes, nodeId)
    /\ selectedNode = nodeId \/ connectingFrom = nodeId      \* the handles are rendered
    /\ connectingFrom' = nodeId
    /\ connectionStart' = ConnectionPoints(Find(nodes, nodeId))[k]
    /\ UNCHANGED <<canvasStoreVars, selectedNode, draggingNode, dragOffset, isPanning, panStart,
                   resizingNode, resizeStart, buttonDown, viewVars, bridgeVars, chatVars,
                   clockVars, lastLeft, sizeVars, layoutVars>>

\* TextBlock.handleResizeStart
handleResizeStart(nodeId, pt) ==
    /\ Idle
    /\ ~buttonDown
    /\ HasId(nodes, nodeId)
    /\ selectedNode = nodeId                                  \* the handle is rendered
    /\ buttonDown' = TRUE
    /\ resizingNode' = nodeId
    /\ LET node == Find(nodes, nodeId)
       IN  resizeStart' = [x |-> pt[1], y |-> pt[2], width |-> node.width, height |-> node.height]
    /\ UNCHANGED <<canvasStoreVars, selectedNode, draggingNode, dragOffset, isPanning, panStart,
                   connectingFrom, connectionStart, viewVars, bridgeVars, chatVars,
                   clockVars, lastLeft, sizeVars, layoutVars>>

minWidth == 200
maxWidth == 600
minHeight == 100
maxHeight == 500

\* the width is not capped
ResizeWidth_NoMax(pt) == Max(minWidth, resizeStart.width + (pt[1] - resizeStart.x))

\* TextBlock resize effect: the size handed to onResize
ResizeWidth(pt) == Max(minWidth, Min(maxWidth, resizeStart.width + (pt[1] - resizeStart.x)))
ResizeHeight(pt) == Max(minHeight, Min(maxHeight, resizeStart.height + (pt[2] - resizeStart.y)))

\* CanvasPanel.handleBlockResize: the two functional updates; closureNodes is
\* the nodes array of the render the handler was created in
ResizeNodes(prev, nodeId, width, height) ==
    MapSeq(prev, LAMBDA node :
        IF node.id = nodeId THEN [node EXCEPT !.width = width, !.height = height] ELSE node)

\* the cached endpoints are left as they are
ResizeConnections_Stale(prev, closureNodes, nodeId, width, height) == prev

ResizeConnections(prev, closureNodes, nodeId, width, height) ==
    MapSeq(prev, LAMBDA conn :
        IF conn.from = nodeId /\ HasId(closureNodes, nodeId)
          THEN LET node == Find(closureNodes, nodeId)
               IN  [conn EXCEPT !.fromPoint = Center(node.x, node.y, width, height)]
          ELSE IF conn.to = nodeId /\ HasId(closureNodes, nodeId)
                 THEN LET node == Find(closureNodes, nodeId)
                      IN  [conn EXCEPT !.toPoint = Center(node.x, node.y, width, height)]
                 ELSE conn)

\* CanvasPanel.handleMouseMove, dragging part
DragPosition(pt) ==
    LET c == ToCanvas(pt) IN << c[1] - dragOffset[1], c[2] - dragOffset[2] >>

DragNodes(prev, pos) ==
    MapSeq(prev, LAMBDA node :
        IF node.id = draggingNode THEN [node EXCEPT !.x = pos[1], !.y = pos[2]] ELSE node)

\* only the connections that start at the dragged block follow it
DragConnections_FromOnly(prev, closureNodes, pos) ==
    IF HasId(closureNodes, draggingNode)
      THEN LET node == Find(closureNodes, draggingNode)
           IN  MapSeq(prev, LAMBDA conn :
                   IF conn.from = draggingNode
                     THEN [conn EXCEPT !.fromPoint = Center(pos[1], pos[2], node.width, node.height)]
                     ELSE conn)
      ELSE prev

DragConnections(prev, closureNodes, pos) ==
    IF HasId(closureNodes, draggingNode)
      THEN LET node == Find(closureNodes, draggingNode)
           IN  MapSeq(prev, LAMBDA conn :
                   IF conn.from = draggingNode
                     THEN [conn EXCEPT !.fromPoint = Center(pos[1], pos[2], node.width, node.height)]
                     ELSE IF conn.to = draggingNode
                            THEN [conn EXCEPT !.toPoint = Center(pos[1], pos[2], node.width, node.height)]
                            ELSE conn)
      ELSE prev

\* one mousemove on the document: CanvasPanel.handleMouseMove and the
\* listener of the block being resized
MouseMove(pt) ==
    /\ Idle
    /\ draggingNode # NULL \/ isPanning \/ resizingNode # NULL
    /\ LET pos == DragPosition(pt)
           nodes1 == IF draggingNode # NULL THEN DragNodes(nodes, pos) ELSE nodes
           conns1 == IF draggingNode # NULL THEN DragConnections(connections, nodes, pos)
                                            ELSE connections
           w == ResizeWidth(pt)
           h == ResizeHeight(pt)
           nodes2 == IF resizingNode # NULL THEN ResizeNodes(nodes1, resizingNode, w, h) ELSE nodes1
           conns2 == IF resizingNode # NULL
                       THEN ResizeConnections(conns1, nodes, resizingNode, w, h) ELSE conns1
           edited == draggingNode # NULL \/ resizingNode # NULL
       IN  /\ draggingNode # NULL => InRange(pos[1]) /\ InRange(pos[2])
           /\ nodes' = nodes2
           /\ connections' = conns2
           /\ debounce' = IF edited THEN Armed(currentCanvasId, nodes2, conns2) ELSE debounce
           /\ synced' = IF edited THEN FALSE ELSE synced
    /\ IF isPanning
         THEN /\ pan' = << pt[1] - panStart[1], pt[2] - panStart[2] >>
              /\ InRange(pan'[1]) /\ InRange(pan'[2])
         ELSE pan' = pan
    /\ UNCHANGED <<canvases, currentCanvasId, pointerVars, zoom, bridgeVars, chatVars,
                   clockVars, lastLeft, sizeVars, layoutVars>>

\* mouseup on the document: CanvasPanel.handleMouseUp and the listener of
\* the block being resized
handleMouseUp ==
    /\ Idle
    /\ buttonDown
    /\ buttonDown' = FALSE
    /\ draggingNode' = NULL
    /\ isPanning' = FALSE
    /\ resizingNode' = NULL
    /\ UNCHANGED <<canvasStoreVars, selectedNode, dragOffset, panStart, connectingFrom,
                   connectionStart, resizeStart, viewVars, bridgeVars, chatVars,
                   clockVars, lastLeft, sizeVars, layoutVars>>

\* panning starts, the armed connection is kept
handleCanvasMouseDown_KeepArmed(pt) ==
    /\ Idle
    /\ ~buttonDown
    /\ buttonDown' = TRUE
    /\ selectedNode' = NULL
    /\ isPanning' = TRUE
    /\ panStart' = << pt[1] - pan[1], pt[2] - pan[2] >>
    /\ UNCHANGED <<canvasStoreVars, draggingNode, dragOffset, resizingNode, resizeStart,
                   connectingFrom, connectionStart, viewVars, bridgeVars, chatVars,
                   clockVars, lastLeft, sizeVars, layoutVars>>

handleCanvasMouseDown(pt) ==
    /\ Idle
    /\ ~buttonDown
    /\ buttonDown' = TRUE
    /\ selectedNode' = NULL
    /\ connectingFrom' = NULL
    /\ connectionStart' = NoPoint
    /\ isPanning' = TRUE
    /\ panStart' = << pt[1] - pan[1], pt[2] - pan[2] >>
    /\ UNCHANGED <<canvasStoreVars, draggingNode, dragOffset, resizingNode, resizeStart,
                   viewVars, bridgeVars, chatVars, clockVars, lastLeft, sizeVars, layoutVars>>

\* only the connections leaving the block are removed
DeleteNodeConnections_FromOnly(prev, nodeId) ==
    SelectSeq(prev, LAMBDA c : c.from # nodeId)

\* prev.filter(c => c.from !== nodeId && c.to !== nodeId)
DeleteNodeConnections(prev, nodeId) ==
    SelectSeq(prev, LAMBDA c : c.from # nodeId /\ c.to # nodeId)

handleDeleteNode(nodeId) ==
    /\ Idle
    /\ ~buttonDown
    /\ HasId(nodes, nodeId)
    /\ selectedNode = nodeId                                  \* the button is rendered
    /\ nodes' = SelectSeq(nodes, LAMBDA n : n.id # nodeId)
    /\ connections' = DeleteNodeConnections(connections, nodeId)
    /\ selectedNode' = NULL
    /\ resizingNode' = StillMounted(resizingNode, nodes')
    /\ debounce' = Armed(currentCanvasId, nodes', connections')
    /\ synced' = FALSE
    /\ UNCHANGED <<canvases, currentCanvasId, draggingNode, dragOffset, isPanning, panStart,
                   connectingFrom, connectionStart, resizeStart, buttonDown, viewVars,
                   bridgeVars, chatVars, clockVars, lastLeft, sizeVars, layoutVars>>

handleDeleteConnection(connectionId) ==
    /\ Idle
    /\ ~buttonDown
    /\ HasId(connections, connectionId)
    /\ connections' = SelectSeq(connections, LAMBDA c : c.id # connectionId)
    /\ debounce' = Armed(currentCanvasId, nodes, connections')
    /\ synced' = FALSE
    /\ UNCHANGED <<canvases, currentCanvasId, nodes, pointerVars, viewVars, bridgeVars,
                   chatVars, clockVars, lastLeft, sizeVars, layoutVars>>

-----------------------------------------------------------------------------
\* CanvasPanel.tsx: zoom

ZoomMin == ZoomScale \div 2       \* 0.5
ZoomMax == 3 * ZoomScale          \* 3

\* prev * num / den, rounded to the nearest representable value
Scale(prev, num, den) == (2 * prev * num + den) \div (2 * den)

\* the upper limit is left out
ClampZoom_NoMax(z) == Max(ZoomMin, z)

\* Math.max(0.5, Math.min(3, z))
ClampZoom(z) == Max(ZoomMin, Min(ZoomMax, z))

\* deltaY > 0 ? 0.9 : 1.1
handleWheel(deltaYPositive) ==
    /\ Idle
    /\ LET scaled == IF deltaYPositive THEN Scale(zoom, 9, 10) ELSE Scale(zoom, 11, 10)
       IN  zoom' = ClampZoom(scaled)
    /\ UNCHANGED <<canvasStoreVars, pointerVars, pan, bridgeVars, chatVars, clockVars,
                   lastLeft, sizeVars, layoutVars>>

\* the button steps by the wheel's factor
handleZoomIn_WheelFactor ==
    /\ Idle
    /\ ~buttonDown
    /\ zoom' = Min(Scale(zoom, 11, 10), ZoomMax)
    /\ UNCHANGED <<canvasStoreVars, pointerVars, pan, bridgeVars, chatVars, clockVars,
                   lastLeft, sizeVars, layoutVars>>

\* setZoom(prev => Math.min(prev * 1.2, 3))
handleZoomIn ==
    /\ Idle
    /\ ~buttonDown
    /\ zoom' = Min(Scale(zoom, 12, 10), ZoomMax)
    /\ UNCHANGED <<canvasStoreVars, pointerVars, pan, bridgeVars, chatVars, clockVars,
                   lastLeft, sizeVars, layoutVars>>

\* setZoom(prev => Math.max(prev / 1.2, 0.5))
handleZoomOut ==
    /\ Idle
    /\ ~buttonDown
    /\ zoom' = Max(Scale(zoom, 10, 12), ZoomMin)
    /\ UNCHANGED <<canvasStoreVars, pointerVars, pan, bridgeVars, chatVars, clockVars,
                   lastLeft, sizeVars, layoutVars>>

-----------------------------------------------------------------------------
\* ChatPanel.tsx / ChatSidebar.tsx / App.tsx: chat sessions

\* useState initialiser of chatSessions
SeedMessage(id, type) == [id |-> id, type |-> type, content |-> "seed"]

InitialChats ==
    << [id |-> "project-discussion", unreadCount |-> 0,
        messages |-> << SeedMessage("1", "user"), SeedMessage("2", "ai"),
                        SeedMessage("3", "user"), SeedMessage("4", "ai"),
                        SeedMessage("5", "user") >>],
       [id |-> "personal-notes", unreadCount |-> 0,
        messages |-> << SeedMessage("1", "user"), SeedMessage("2", "ai") >>],
       [id |-> "team-brainstorm", unreadCount |-> 2,
        messages |-> << SeedMessage("1", "user"), SeedMessage("2", "ai") >>] >>

\* the text area contents: white space around the text trim() leaves
Inputs ==
    { [lead |-> 1, text |-> "plan", trail |-> 1],
      [lead |-> 2, text |-> "", trail |-> 0] }

responses == 5
MaxTemplates == 1      \* templates simulateAIResponse picks from in the model

simulateAIResponse(userMessage, k) == "reply-" \o ToString(k) \o ":" \o userMessage

\* the message is put in front of the messages of the chat
AppendMessage_InFront(prev, chatId, message) ==
    MapSeq(prev, LAMBDA chat :
        IF chat.id = chatId THEN [chat EXCEPT !.messages = <<message>> \o chat.messages]
                            ELSE chat)

AppendMessage(prev, chatId, message) ==
    MapSeq(prev, LAMBDA chat :
        IF chat.id = chatId THEN [chat EXCEPT !.messages = Append(chat.messages, message)]
                            ELSE chat)

handleSendMessage(input) ==
    /\ Idle
    /\ msgClock + Cardinality(replyTimers) + 2 <= 2 * MaxSends
    /\ IF Trim(input) = ""
         THEN \* if (!inputValue.trim()) return
              UNCHANGED <<chatSessions, replyTimers, isTyping, msgClock>>
         ELSE /\ LET userMessage == [id |-> MsgId(msgClock + 1), type |-> "user",
                                     content |-> Trim(input)]
                 IN  /\ chatSessions' = AppendMessage(chatSessions, currentChatId, userMessage)
                     /\ replyTimers' = replyTimers \cup
                            { [chatId |-> currentChatId, userMessageId |-> userMessage.id,
                               content |-> userMessage.content] }
              /\ isTyping' = TRUE
              /\ msgClock' = msgClock + 1
    /\ UNCHANGED <<canvasStoreVars, pointerVars, viewVars, bridgeVars, highlightedMessageId,
                   currentChatId, chatClock, clockVars, lastLeft, sizeVars, layoutVars>>

\* the reply goes to the chat active when the timer fires
ReplyTarget_ActiveChat(timer) == currentChatId

\* chat.id === currentChatId in the callback: the currentChatId of the render
\* handleSendMessage was called in
ReplyTarget(timer) == timer.chatId

\* the setTimeout callback of handleSendMessage
ReplyTimerFire(timer, k) ==
    /\ Idle
    /\ timer \in replyTimers
    /\ LET aiMessage == [id |-> MsgId(msgClock + 1), type |-> "ai",
                         content |-> simulateAIResponse(timer.content, k)]
       IN  chatSessions' = AppendMessage(chatSessions, ReplyTarget(timer), aiMessage)
    /\ replyTimers' = replyTimers \ {timer}
    /\ isTyping' = FALSE
    /\ msgClock' = msgClock + 1
    /\ UNCHANGED <<canvasStoreVars, pointerVars, viewVars, bridgeVars, highlightedMessageId,
                   currentChatId, chatClock, clockVars, lastLeft, sizeVars, layoutVars>>

\* the highlight is left as it is
AppChatSelect_KeepHighlight(chatId) ==
    /\ currentChatId' = chatId
    /\ highlightedMessageId' = highlightedMessageId

\* App.handleChatSelect
AppChatSelect(chatId) ==
    /\ currentChatId' = chatId
    /\ highlightedMessageId' = NULL

handleChatUpdate(prev, chatId, unread) ==
    MapSeq(prev, LAMBDA chat : IF chat.id = chatId THEN [chat EXCEPT !.unreadCount = unread]
                                                    ELSE chat)

\* ChatSidebar.handleChatSelect
handleChatSelect(chatId) ==
    /\ Idle
    /\ HasId(chatSessions, chatId)
    /\ AppChatSelect(chatId)
    /\ chatSessions' = IF Find(chatSessions, chatId).unreadCount # 0
                         THEN handleChatUpdate(chatSessions, chatId, 0)
                         ELSE chatSessions
    /\ UNCHANGED <<canvasStoreVars, pointerVars, viewVars, bridgeVars, isTyping, replyTimers,
                   chatClock, msgClock, clockVars, lastLeft, sizeVars, layoutVars>>

handleNewChatClick ==
    /\ Idle
    /\ chatClock + Len(InitialChats) < MaxChats
    /\ LET newChat == [id |-> ChatId(chatClock + 1), messages |-> <<>>, unreadCount |-> 0]
       IN  /\ chatSessions' = <<newChat>> \o chatSessions
           /\ AppChatSelect(newChat.id)
    /\ chatClock' = chatClock + 1
    /\ UNCHANGED <<canvasStoreVars, pointerVars, viewVars, bridgeVars, isTyping, replyTimers,
                   msgClock, clockVars, lastLeft, sizeVars, layoutVars>>

\* the session is removed, the active chat id is left as it is
handleChatDelete_NoReselect(chatId) ==
    /\ Idle
    /\ HasId(chatSessions, chatId)
    /\ chatSessions' = SelectSeq(chatSessions, LAMBDA chat : chat.id # chatId)
    /\ UNCHANGED <<canvasStoreVars, pointerVars, viewVars, bridgeVars, highlightedMessageId,
                   currentChatId, isTyping, replyTimers, chatClock, msgClock, clockVars,
                   lastLeft, sizeVars, layoutVars>>

\* ChatPanel.handleChatDelete
handleChatDelete(chatId) ==
    /\ Idle
    /\ HasId(chatSessions, chatId)
    /\ chatSessions' = SelectSeq(chatSessions, LAMBDA chat : chat.id # chatId)
    /\ LET remainingChats == SelectSeq(chatSessions, LAMBDA chat : chat.id # chatId)
       IN  IF currentChatId = chatId /\ Len(remainingChats) > 0
             THEN AppChatSelect(remainingChats[1].id)
             ELSE UNCHANGED <<currentChatId, highlightedMessageId>>
    /\ UNCHANGED <<canvasStoreVars, pointerVars, viewVars, bridgeVars, isTyping, replyTimers,
                   chatClock, msgClock, clockVars, lastLeft, sizeVars, layoutVars>>

\* ChatSidebar keydown listener, ArrowUp / ArrowDown: the neighbour of the
\* active chat in the list sorted by last activity (any listed chat, the
\* activity times not being modelled) is handed to App.handleChatSelect
handleKeyDown(chatId) ==
    /\ Idle
    /\ HasId(chatSessions, currentChatId)          \* currentIndex !== -1
    /\ HasId(chatSessions, chatId)
    /\ AppChatSelect(chatId)
    /\ UNCHANGED <<canvasStoreVars, pointerVars, viewVars, bridgeVars, chatSessions, isTyping,
                   replyTimers, chatClock, msgClock, clockVars, lastLeft, sizeVars, layoutVars>>

\* App.handleBlockClick
AppBlockClick(messageId, chatId) ==
    /\ currentChatId' = IF chatId # UNDEFINED /\ chatId # "" /\ chatId # currentChatId
                          THEN chatId ELSE currentChatId
    /\ highlightedMessageId' = messageId

\* CanvasPanel.handleBlockClick, the onClick of a block
handleBlockClick(nodeId) ==
    /\ Idle
    /\ ~buttonDown
    /\ HasId(nodes, nodeId)
    /\ LET node == Find(nodes, nodeId)
       IN  IF node.sourceMessageId # UNDEFINED /\ node.sourceMessageId # ""
             THEN AppBlockClick(node.sourceMessageId, node.sourceChatId)
             ELSE UNCHANGED <<currentChatId, highlightedMessageId>>
    /\ UNCHANGED <<canvasStoreVars, pointerVars, viewVars, bridgeVars, chatSessions, isTyping,
                   replyTimers, chatClock, msgClock, clockVars, lastLeft, sizeVars, layoutVars>>

\* the highlight is left as it is
handleHighlightComplete_Keep == highlightedMessageId' = highlightedMessageId

\* App.handleHighlightComplete
handleHighlightComplete == highlightedMessageId' = NULL

\* ChatPanel highlight effect: the two-second timer set while a message is
\* highlighted fires
HighlightTimerFire ==
    /\ Idle
    /\ highlightedMessageId # NULL
    /\ handleHighlightComplete
    /\ UNCHANGED <<canvasStoreVars, pointerVars, viewVars, bridgeVars, currentChatId,
                   chatSessions, isTyping, replyTimers, chatClock, msgClock, clockVars,
                   lastLeft, sizeVars, layoutVars>>

\* the sole chat is deleted like any other
SeveralChats_Always == TRUE

\* chatSessions.length > 1
SeveralChats == Len(chatSessions) > 1

\* ChatSidebar.handleDeleteChat
handleDeleteChat(chatId) ==
    /\ Idle
    /\ HasId(chatSessions, chatId)
    /\ IF SeveralChats
         THEN handleChatDelete(chatId)
         ELSE UNCHANGED vars

-----------------------------------------------------------------------------
\* Initial state: the useState initialisers

NoSize == [width |-> 0, height |-> 0]

InitCanvas ==
    /\ canvases = << [id |-> "default-canvas", nodes |-> <<>>, connections |-> <<>>] >>
    /\ currentCanvasId = "default-canvas"
    /\ nodes = <<>>
    /\ connections = <<>>
    /\ selectedNode = NULL
    /\ draggingNode = NULL
    /\ dragOffset = <<0, 0>>
    /\ zoom = ZoomScale
    /\ pan = <<0, 0>>
    /\ isPanning = FALSE
    /\ panStart = <<0, 0>>
    /\ connectingFrom = NULL
    /\ connectionStart = NoPoint
    /\ resizingNode = NULL
    /\ resizeStart = [x |-> 0, y |-> 0, width |-> 0, height |-> 0]
    \* the debounce effect runs on mount
    /\ debounce = Armed("default-canvas", <<>>, <<>>)
    /\ synced = TRUE
    /\ buttonDown = FALSE
    /\ nodeClock = 0
    /\ connClock = 0
    /\ canvasClock = 0
    /\ lastLeft = <<>>

InitApp ==
    /\ draggedText = NoText
    /\ sourceMsgId = NULL
    /\ sourceChatId = NULL
    /\ highlightedMessageId = NULL
    /\ currentChatId = "project-discussion"
    /\ transfers = 0

InitChat ==
    /\ chatSessions = InitialChats
    /\ isTyping = FALSE
    /\ replyTimers = {}
    /\ chatClock = 0
    /\ msgClock = 0

InitSize ==
    /\ textA = NoText
    /\ textB = NoText
    /\ sizeA = NoSize
    /\ sizeB = NoSize

\* useState(window.innerWidth), useLocalStorage('leftPanelWidth', 500) with
\* nothing stored, and the divider at rest
DefaultLeftWidth == 500

InitLayout ==
    /\ containerWidth = ViewLeft + ViewWidth
    /\ leftPanelWidth = DefaultLeftWidth
    /\ isDragging = FALSE
    /\ startX = 0
    /\ startWidth = DefaultLeftWidth

Init == InitCanvas /\ InitApp /\ InitChat /\ InitSize /\ InitLayout

-----------------------------------------------------------------------------
\* The canvas workspace: drops, pointer gestures, canvas list, write-back

\* CanvasMenu renders the delete button of every canvas but the active one
MenuDelete(canvasId) ==
    /\ ~buttonDown
    /\ canvasId # currentCanvasId
    /\ handleCanvasDelete(canvasId)

Next ==
    \/ \E sel \in Selections : \E i \in 1..Len(CurrentMessages) :
           HandleTextSelection(CurrentMessages[i].id, sel)
    \/ DropEffect
    \/ DebounceFire
    \/ \E id \in Ids(canvases) : handleCanvasSelect(id)
    \/ handleNewCanvas
    \/ \E id \in Ids(canvases) : MenuDelete(id)
    \/ \E id \in Ids(nodes) : \E pt \in PressPoints : handleBlockMouseDown(id, pt)
    \/ \E id \in Ids(nodes) : \E k \in 1..MaxHandle : handleConnectionStart(id, k)
    \/ \E id \in Ids(nodes) : \E pt \in PressPoints : handleResizeStart(id, pt)
    \/ \E pt \in PressPoints : MouseMove(pt)
    \/ handleMouseUp
    \/ \E pt \in PressPoints : handleCanvasMouseDown(pt)
    \/ \E id \in Ids(nodes) : handleDeleteNode(id)
    \/ \E id \in Ids(connections) : handleDeleteConnection(id)

Spec == Init /\ [][Next]_vars

-----------------------------------------------------------------------------
\* The pointer layer on one canvas: drops, block drag and resize with real
\* cursor movement, write-back of the result

NextPointer ==
    \/ \E sel \in Selections : \E i \in 1..Len(CurrentMessages) :
           HandleTextSelection(CurrentMessages[i].id, sel)
    \/ DropEffect
    \/ DebounceFire
    \/ \E id \in Ids(nodes) : \E pt \in MousePoints : handleBlockMouseDown(id, pt)
    \/ \E id \in Ids(nodes) : \E pt \in MousePoints : handleResizeStart(id, pt)
    \/ \E pt \in MousePoints : MouseMove(pt)
    \/ handleMouseUp
    \/ \E id \in Ids(nodes) : handleDeleteNode(id)

SpecPointer == Init /\ [][NextPointer]_vars

-----------------------------------------------------------------------------
\* The Drag Bridge and the viewport: drops under pan and zoom, canvas switches

\* the zoom operations are taken from the initial zoom factor only
FirstZoom == zoom = ZoomScale

NextView ==
    \/ \E sel \in Selections : \E i \in 1..Len(CurrentMessages) :
           HandleTextSelection(CurrentMessages[i].id, sel)
    \/ DropEffect
    \/ DebounceFire
    \/ \E id \in Ids(canvases) : handleCanvasSelect(id)
    \/ handleNewCanvas
    \/ \E pt \in MousePoints : handleCanvasMouseDown(pt)
    \/ \E pt \in MousePoints : MouseMove(pt)
    \/ handleMouseUp
    \/ \E d \in BOOLEAN : FirstZoom /\ handleWheel(d)
    \/ FirstZoom /\ handleZoomIn
    \/ FirstZoom /\ handleZoomOut

SpecView == Init /\ [][NextView]_vars

-----------------------------------------------------------------------------
\* The zoom factor alone

NextZoom ==
    \/ \E d \in BOOLEAN : handleWheel(d)
    \/ handleZoomIn
    \/ handleZoomOut

SpecZoom == Init /\ [][NextZoom]_vars

-----------------------------------------------------------------------------
\* calculateInitialSize applied to two texts

Texts ==
    { <<c * CharStep, s * SpaceStep>> :
        <<c, s>> \in { cs \in (0..MaxCharK) \X (0..MaxSpaceK) : cs[2] * SpaceStep <= cs[1] * CharStep } }

InitTexts ==
    /\ InitCanvas /\ InitApp /\ InitChat /\ InitLayout
    /\ textA \in Texts
    /\ textB \in Texts
    /\ textA[1] <= textB[1]
    /\ sizeA = NoSize
    /\ sizeB = NoSize

Measure ==
    /\ sizeA = NoSize
    /\ sizeA' = calculateInitialSize(textA)
    /\ sizeB' = calculateInitialSize(textB)
    /\ UNCHANGED <<canvasStoreVars, pointerVars, viewVars, bridgeVars, chatVars, clockVars,
                   lastLeft, textA, textB, layoutVars>>

SpecSize == InitTexts /\ [][Measure]_vars

-----------------------------------------------------------------------------
\* The two stores: canvas list with write-back, chat sessions with replies

\* one drop and one user message in a behaviour
FirstDrop == transfers = 0
FirstSend == msgClock = 0

NextStores ==
    \/ \E sel \in Selections : \E i \in 1..Len(CurrentMessages) :
           FirstDrop /\ HandleTextSelection(CurrentMessages[i].id, sel)
    \/ DropEffect
    \/ DebounceFire
    \/ \E id \in Ids(canvases) : handleCanvasSelect(id)
    \/ handleNewCanvas
    \/ \E id \in Ids(canvases) : MenuDelete(id)
    \/ \E input \in Inputs : FirstSend /\ handleSendMessage(input)
    \/ \E timer \in replyTimers : \E k \in 1..Min(responses, MaxTemplates) : ReplyTimerFire(timer, k)
    \/ \E id \in Ids(chatSessions) : handleChatSelect(id)
    \/ handleNewChatClick
    \/ \E id \in Ids(chatSessions) : handleDeleteChat(id)

SpecStores == Init /\ [][NextStores]_vars

-----------------------------------------------------------------------------
\* The two lists at handler level: every canvas and every chat can be asked
\* to be deleted, the active ones included

NextLists ==
    \/ \E sel \in Selections : \E i \in 1..Len(CurrentMessages) :
           FirstDrop /\ HandleTextSelection(CurrentMessages[i].id, sel)
    \/ DropEffect
    \/ DebounceFire
    \/ \E id \in Ids(canvases) : handleCanvasSelect(id)
    \/ handleNewCanvas
    \/ \E id \in Ids(canvases) : handleCanvasDelete(id)
    \/ \E id \in Ids(chatSessions) : handleChatSelect(id)
    \/ handleNewChatClick
    \/ \E id \in Ids(chatSessions) : handleDeleteChat(id)

SpecLists == Init /\ [][NextLists]_vars

-----------------------------------------------------------------------------
\* Chat navigation: blocks dropped from chats, block clicks, the highlight
\* timer, chat selection by mouse and keyboard, chat creation and deletion

NextChatNav ==
    \/ \E sel \in Selections : \E i \in 1..Len(CurrentMessages) :
           HandleTextSelection(CurrentMessages[i].id, sel)
    \/ DropEffect
    \/ \E id \in Ids(nodes) : handleBlockClick(id)
    \/ HighlightTimerFire
    \/ \E id \in Ids(chatSessions) : handleChatSelect(id)
    \/ \E id \in Ids(chatSessions) : handleKeyDown(id)
    \/ handleNewChatClick
    \/ \E id \in Ids(chatSessions) : handleDeleteChat(id)

SpecChatNav == Init /\ [][NextChatNav]_vars

\* the effect that consumes a transfer runs after the render that shows it,
\* and the timer set by the highlight effect runs out while it stays set
SpecChatNavLive ==
    SpecChatNav /\ WF_vars(DropEffect) /\ WF_vars(HighlightTimerFire)

-----------------------------------------------------------------------------
\* Connections between blocks that move: drops, the connection gesture,
\* block drag and resize with real cursor movement

NextConnect ==
    \/ \E sel \in Selections : \E i \in 1..Len(CurrentMessages) :
           HandleTextSelection(CurrentMessages[i].id, sel)
    \/ DropEffect
    \/ \E id \in Ids(nodes) : \E pt \in MousePoints : handleBlockMouseDown(id, pt)
    \/ \E id \in Ids(nodes) : \E k \in 1..MaxHandle : handleConnectionStart(id, k)
    \/ \E id \in Ids(nodes) : \E pt \in MousePoints : handleResizeStart(id, pt)
    \/ \E pt \in MousePoints : MouseMove(pt)
    \/ handleMouseUp
    \/ \E id \in Ids(nodes) : handleDeleteNode(id)

SpecConnect == Init /\ [][NextConnect]_vars

-----------------------------------------------------------------------------
\* The chat sessions: several sends with their reply timers, chat selection,
\* creation and deletion, and the click on a block that leads back to its chat

NextChat ==
    \/ \E sel \in Selections : \E i \in 1..Len(CurrentMessages) :
           FirstDrop /\ HandleTextSelection(CurrentMessages[i].id, sel)
    \/ DropEffect
    \/ \E id \in Ids(nodes) : handleBlockClick(id)
    \/ \E input \in Inputs : handleSendMessage(input)
    \/ \E timer \in replyTimers : \E k \in 1..Min(responses, MaxTemplates) : ReplyTimerFire(timer, k)
    \/ \E id \in Ids(chatSessions) : handleChatSelect(id)
    \/ handleNewChatClick
    \/ \E id \in Ids(chatSessions) : handleDeleteChat(id)

SpecChat == Init /\ [][NextChat]_vars

\* a timer set by setTimeout runs out
ReplyTimersFire ==
    \E timer \in replyTimers : \E k \in 1..Min(responses, MaxTemplates) : ReplyTimerFire(timer, k)

\* the effect that consumes a transfer runs after the render that shows it,
\* and pending reply timers run out
SpecChatLive ==
    SpecChat /\ WF_vars(DropEffect) /\ WF_vars(ReplyTimersFire)

-----------------------------------------------------------------------------
\* App.tsx / ResizableDivider.tsx: the widths of the two panels

minLeftWidth == 400
minRightWidth == 450

\* window widths and stored left-panel widths the layout starts from, and
\* the cursor positions of a divider drag
ContainerWidths == {700, 849, 850, 851, 1301}
StoredWidths == {300, 399, 400, 401, 500, 900}
DividerPoints == {350, 500, 900}

\* useLocalStorage: the stored width is read at startup
InitPanels ==
    /\ InitCanvas /\ InitApp /\ InitChat /\ InitSize
    /\ containerWidth \in ContainerWidths
    /\ leftPanelWidth \in StoredWidths
    /\ isDragging = FALSE
    /\ startX = 0
    /\ startWidth = leftPanelWidth

\* window resize listener: setContainerWidth(window.innerWidth)
handleResize(width) ==
    /\ containerWidth' = width
    /\ UNCHANGED <<canvasStoreVars, pointerVars, viewVars, bridgeVars, chatVars, clockVars,
                   lastLeft, sizeVars, leftPanelWidth, isDragging, startX, startWidth>>

\* the effect on [containerWidth, leftPanelWidth]: one run that updates the
\* width; a run that finds nothing to correct updates nothing
ConstraintEffect ==
    LET maxLeftWidth == containerWidth - minRightWidth
    IN  /\ leftPanelWidth > maxLeftWidth \/ leftPanelWidth < minLeftWidth
        /\ leftPanelWidth' = IF leftPanelWidth > maxLeftWidth THEN maxLeftWidth
                                                              ELSE minLeftWidth
        /\ UNCHANGED <<canvasStoreVars, pointerVars, viewVars, bridgeVars, chatVars,
                       clockVars, lastLeft, sizeVars, containerWidth, isDragging, startX,
                       startWidth>>

\* ResizableDivider.handleMouseDown
DividerMouseDown(x) ==
    /\ ~isDragging
    /\ isDragging' = TRUE
    /\ startX' = x
    /\ startWidth' = leftPanelWidth              \* initialLeftWidth={leftPanelWidth}
    /\ UNCHANGED <<canvasStoreVars, pointerVars, viewVars, bridgeVars, chatVars, clockVars,
                   lastLeft, sizeVars, containerWidth, leftPanelWidth>>

\* ResizableDivider.handleMouseMove -> App.handlePanelResize
DividerMouseMove(x) ==
    /\ isDragging
    /\ LET deltaX == x - startX
           newLeftWidth == startWidth + deltaX
           maxLeftWidth == containerWidth - minRightWidth
           clampedWidth == Max(minLeftWidth, Min(newLeftWidth, maxLeftWidth))
       IN  leftPanelWidth' = clampedWidth
    /\ UNCHANGED <<canvasStoreVars, pointerVars, viewVars, bridgeVars, chatVars, clockVars,
                   lastLeft, sizeVars, containerWidth, isDragging, startX, startWidth>>

\* ResizableDivider.handleMouseUp
DividerMouseUp ==
    /\ isDragging
    /\ isDragging' = FALSE
    /\ UNCHANGED <<canvasStoreVars, pointerVars, viewVars, bridgeVars, chatVars, clockVars,
                   lastLeft, sizeVars, containerWidth, leftPanelWidth, startX, startWidth>>

NextPanels ==
    \/ \E width \in ContainerWidths : handleResize(width)
    \/ ConstraintEffect
    \/ \E x \in DividerPoints : DividerMouseDown(x)
    \/ \E x \in DividerPoints : DividerMouseMove(x)
    \/ DividerMouseUp

SpecPanels == InitPanels /\ [][NextPanels]_vars

\* an effect whose dependencies changed runs after the render
SpecPanelsLive == SpecPanels /\ WF_vars(ConstraintEffect)

-----------------------------------------------------------------------------
\* Properties

\* the elements of a sequence
Elems(seq) == { seq[i] : i \in DOMAIN seq }

C2_EndpointIntegrity ==
    /\ \A c \in Elems(connections) : HasId(nodes, c.from) /\ HasId(nodes, c.to)
    /\ \A canvas \in Elems(canvases) :
           \A c \in Elems(canvas.connections) :
               HasId(canvas.nodes, c.from) /\ HasId(canvas.nodes, c.to)

\* the armed source block has been deleted while another block is left to
\* click, and a stored canvas holds a connection
C2_Witness ==
    /\ connectingFrom # NULL
    /\ ~HasId(nodes, connectingFrom)
    /\ nodes # <<>>
    /\ \E canvas \in Elems(canvases) : canvas.connections # <<>>

\* C3: each beginDrag sets the pending transfer from its arguments; each
\* block creation appends to the working blocks exactly one block that
\* carries the pending text and source ids, consuming the transfer; the
\* blocks created so far are as many as the beginDrags, less the one still
\* pending, whatever happens to pan, zoom or the active canvas
\* (specification SpecView)
C3_OneBlockPerDrag ==
    /\ [](nodeClock = IF draggedText = NoText THEN transfers ELSE transfers - 1)
    /\ [][ /\ \A sel \in Selections : \A m \in Ids(CurrentMessages) :
                 HandleTextSelection(m, sel) =>
                     /\ draggedText' = sel.text
                     /\ sourceMsgId' = m
                     /\ sourceChatId' = currentChatId
                     /\ nodes' = nodes
           /\ nodeClock' # nodeClock =>
                 /\ nodeClock' = nodeClock + 1
                 /\ draggedText # NoText
                 /\ Len(nodes') = Len(nodes) + 1
                 /\ SubSeq(nodes', 1, Len(nodes)) = nodes
                 /\ nodes'[Len(nodes')].text = draggedText
                 /\ nodes'[Len(nodes')].sourceMessageId = sourceMsgId
                 /\ nodes'[Len(nodes')].sourceChatId = sourceChatId
                 /\ currentCanvasId' = currentCanvasId
           /\ (nodeClock' = nodeClock /\ currentCanvasId' = currentCanvasId) =>
                 Len(nodes') <= Len(nodes) ]_vars

\* the one block of a drag dropped at pan 0 is still the only block after
\* pan and zoom, both dependencies of the effect, have changed
C3_Witness ==
    /\ transfers = 1 /\ nodeClock = 1
    /\ Len(nodes) = 1
    /\ nodes[1].text = <<130, 33>>
    /\ nodes[1].sourceMessageId = "1"
    /\ nodes[1].sourceChatId = "project-discussion"
    /\ nodes[1].x = ViewWidth \div 2 - nodes[1].width \div 2
    /\ pan # <<0, 0>>
    /\ zoom # ZoomScale

\* C4: the bridge holds at most one pending transfer, its three fields are
\* null together; the step that creates the block clears all three, and they
\* leave null only by a beginDrag (specification SpecView)
C4_SingleSlot ==
    /\ [](/\ (draggedText = NoText) = (sourceMsgId = NULL)
          /\ (draggedText = NoText) = (sourceChatId = NULL)
          /\ transfers - nodeClock \in {0, 1})
    /\ [][ /\ nodeClock' # nodeClock =>
                 draggedText' = NoText /\ sourceMsgId' = NULL /\ sourceChatId' = NULL
           /\ (draggedText = NoText /\ <<draggedText, sourceMsgId, sourceChatId>>'
                                          # <<NoText, NULL, NULL>>) =>
                 transfers' = transfers + 1
           /\ (draggedText # NoText /\ draggedText' # NoText) =>
                 /\ <<draggedText, sourceMsgId, sourceChatId>>'
                      = <<draggedText, sourceMsgId, sourceChatId>>
                 /\ transfers' = transfers ]_vars

\* a second transfer has been consumed: the slot is empty again after having
\* been filled by the next beginDrag
C4_Witness ==
    /\ transfers = 2 /\ nodeClock = 2
    /\ draggedText = NoText /\ sourceMsgId = NULL /\ sourceChatId = NULL
    /\ Len(nodes) = 2
    /\ nodes[2].sourceMessageId = "1"

\* the documented size bounds of a block
SizeInBounds(size) ==
    /\ 200 <= size.width /\ size.width <= 600
    /\ 100 <= size.height /\ size.height <= 500

\* C5 as stated: of two texts the one that is not longer gets neither the
\* greater width nor the greater height, and both sizes are within the bounds
\* (specification SpecSize, whose texts have textA not longer than textB)
C5_MonotoneInLength ==
    sizeA # NoSize =>
        /\ sizeA.width <= sizeB.width
        /\ sizeA.height <= sizeB.height
        /\ SizeInBounds(sizeA) /\ SizeInBounds(sizeB)

\* C5: of two texts the one that is not longer gets no greater width, and no
\* greater height if it has no more words either; both sizes are within the
\* bounds (specification SpecSize)
C5_MonotoneInLengthAndWords ==
    sizeA # NoSize =>
        /\ sizeA.width <= sizeB.width
        /\ textA[2] <= textB[2] => sizeA.height <= sizeB.height
        /\ SizeInBounds(sizeA) /\ SizeInBounds(sizeB)

\* the shorter text is narrower and, having more words, taller
C5_Witness ==
    /\ sizeA # NoSize
    /\ textA[1] < textB[1]
    /\ textA[2] > textB[2]
    /\ sizeA.width < sizeB.width
    /\ sizeA.height > sizeB.height

\* C6: every block of the working state and of every stored canvas has
\* 200 <= width <= 600 and 100 <= height <= 500 (specification SpecPointer)
C6_BlockSizeBounds ==
    /\ \A n \in Elems(nodes) : SizeInBounds(n)
    /\ \A canvas \in Elems(canvases) : \A n \in Elems(canvas.nodes) : SizeInBounds(n)

\* a block has been resized against both upper limits, another against both
\* lower limits, and the result has been written back
C6_Witness ==
    /\ \E n \in Elems(nodes) : n.width = 600 /\ n.height = 500
    /\ \E n \in Elems(nodes) : n.width = 200 /\ n.height = 100
    /\ Find(canvases, currentCanvasId).nodes = nodes
    /\ resizingNode = NULL

\* C7: 0.5 <= zoom <= 3.0 (specification SpecZoom)
C7_ZoomRange ==
    /\ 2 * zoom >= ZoomScale
    /\ zoom <= 3 * ZoomScale

\* the zoom factor stands at the upper limit
C7_Witness == zoom = 3 * ZoomScale

\* the canvases and the chats that are not active after a step and are
\* still listed
Background(seq, activeId, seq2) == { e \in Elems(seq) : e.id # activeId /\ HasId(seq2, e.id) }

\* C8 as stated: no step, a write-back or a reply timer included, changes the
\* stored blocks and connections of a canvas or the messages of a chat that
\* is not the active one after the step (specification SpecStores)
C8_InactiveNeverChanges ==
    [][ /\ \A canvas \in Background(canvases, currentCanvasId', canvases') :
               Find(canvases', canvas.id) = canvas
        /\ \A chat \in Background(chatSessions, currentChatId', chatSessions') :
               Find(chatSessions', chat.id).messages = chat.messages ]_vars

\* C8: a step that switches the active canvas or chat changes no stored
\* canvas and no chat's messages; no step, a write-back included, changes a
\* canvas that is not active after it; the messages of a chat that is not
\* active change only by a reply timer of that chat appending its one reply
\* (specification SpecStores)
C8_SwitchFrame ==
    [][ /\ currentCanvasId' # currentCanvasId => canvases' = canvases
        /\ currentChatId' # currentChatId =>
               \A chat \in Elems(chatSessions) :
                   HasId(chatSessions', chat.id) =>
                       Find(chatSessions', chat.id).messages = chat.messages
        /\ \A canvas \in Background(canvases, currentCanvasId', canvases') :
               Find(canvases', canvas.id) = canvas
        /\ \A chat \in Background(chatSessions, currentChatId', chatSessions') :
               LET after == Find(chatSessions', chat.id).messages
               IN  after # chat.messages =>
                       /\ \E timer \in replyTimers \ replyTimers' : timer.chatId = chat.id
                       /\ Len(after) = Len(chat.messages) + 1
                       /\ SubSeq(after, 1, Len(chat.messages)) = chat.messages
                       /\ after[Len(after)].type = "ai" ]_vars

\* the canvas switched away from keeps its stored block after the write-back
\* armed by the switch has fired, and a chat that is not active holds the
\* reply to the message sent in it
C8_Witness ==
    /\ lastLeft # <<>>
    /\ lastLeft[1].id # currentCanvasId
    /\ debounce = <<>>
    /\ HasId(canvases, lastLeft[1].id)
    /\ Find(canvases, lastLeft[1].id).nodes # <<>>
    /\ replyTimers = {}
    /\ \E chat \in Elems(chatSessions) :
           /\ chat.id # currentChatId
           /\ chat.messages # <<>>
           /\ chat.messages[Len(chat.messages)].id = MsgId(2)
           /\ chat.messages[Len(chat.messages)].type = "ai"

C10_RoundTrip ==
    [][ (/\ lastLeft # <<>>
         /\ currentCanvasId' # currentCanvasId
         /\ currentCanvasId' = lastLeft[1].id) =>
            /\ nodes' = lastLeft[1].nodes
            /\ connections' = lastLeft[1].connections ]_vars

\* C11: the canvas list and the chat list are never empty: no step removes
\* the only entry of either list, and a delete request made while only one
\* entry remains leaves the list and the active id as they are
\* (specification SpecLists)
C11_ListsNeverEmpty ==
    /\ [](Len(canvases) >= 1 /\ Len(chatSessions) >= 1)
    /\ [][ /\ Len(canvases) = 1 => Ids(canvases) \subseteq Ids(canvases')
           /\ Len(chatSessions) = 1 => Ids(chatSessions) \subseteq Ids(chatSessions')
           /\ \A id \in Ids(canvases) :
                  (Len(canvases) = 1 /\ handleCanvasDelete(id)) =>
                      canvases' = canvases /\ currentCanvasId' = currentCanvasId
           /\ \A id \in Ids(chatSessions) :
                  (Len(chatSessions) = 1 /\ handleDeleteChat(id)) =>
                      chatSessions' = chatSessions /\ currentChatId' = currentChatId ]_vars

\* after a canvas and a chat have been created, deletions have brought both
\* lists down to one entry
C11_Witness ==
    /\ Len(canvases) = 1 /\ canvasClock = 1
    /\ Len(chatSessions) = 1 /\ chatClock = 1

\* C12: a send registers one reply timer for the active chat; when the timer
\* fires, the chat the message was sent in, if still listed, gets exactly one
\* more message, the assistant's, at the end of its list, and the messages of
\* every other chat stay as they are, whichever chat is active then
\* (specification SpecStores)
C12_ReplyToOriginChat ==
    [][ /\ \A timer \in replyTimers' \ replyTimers :
               /\ timer.chatId = currentChatId
               /\ replyTimers' = replyTimers \cup {timer}
               /\ LET sent == Find(chatSessions', currentChatId).messages
                  IN  sent[Len(sent)].id = timer.userMessageId
        /\ \A timer \in replyTimers \ replyTimers' :
               /\ replyTimers' = replyTimers \ {timer}
               /\ Ids(chatSessions') = Ids(chatSessions)
               /\ \A chat \in Elems(chatSessions) :
                      LET after == Find(chatSessions', chat.id).messages
                      IN  IF chat.id = timer.chatId
                            THEN /\ Len(after) = Len(chat.messages) + 1
                                 /\ SubSeq(after, 1, Len(chat.messages)) = chat.messages
                                 /\ after[Len(after)].type = "ai"
                                 /\ \E k \in 1..responses :
                                        after[Len(after)].content
                                            = simulateAIResponse(timer.content, k)
                            ELSE after = chat.messages ]_vars

\* the reply stands right after the user message in the chat it was sent in,
\* which is no longer the active chat, and in no other chat
C12_Witness ==
    /\ replyTimers = {}
    /\ msgClock = 2
    /\ \E chat \in Elems(chatSessions) :
           LET n == Len(chat.messages)
           IN  /\ chat.id # currentChatId
               /\ n >= 2
               /\ chat.messages[n].type = "ai"
               /\ chat.messages[n - 1].type = "user"
               /\ chat.messages[n - 1].id = MsgId(1)
               /\ \A other \in Elems(chatSessions) :
                      other.id # chat.id =>
                          \A m \in Elems(other.messages) : m.id # chat.messages[n].id

\* no drag transfer is pending
BridgeEmpty == draggedText = NoText /\ sourceMsgId = NULL /\ sourceChatId = NULL

\* C13 as stated: after every step that changes the active chat the
\* highlight and the three fields of the drag transfer are null
\* (specification SpecChatNav)
C13_ChatChangeClearsAll ==
    [][ currentChatId' # currentChatId =>
            highlightedMessageId' = NULL /\ BridgeEmpty' ]_vars

\* C13: a change of the active chat by sidebar selection, arrow key, new
\* chat or deletion of the active chat leaves the highlight null; a change by
\* a block click leaves the highlight on the source message of a block whose
\* source chat is the new active chat; no transfer is pending before or
\* after any change of the active chat (specification SpecChatNav)
C13_ChatChangeClearsHighlight ==
    [][ currentChatId' # currentChatId =>
            /\ BridgeEmpty /\ BridgeEmpty'
            /\ \/ highlightedMessageId' = NULL
               \/ \E n \in Elems(nodes) :
                      /\ handleBlockClick(n.id)
                      /\ n.sourceChatId = currentChatId'
                      /\ n.sourceMessageId = highlightedMessageId'
            /\ \A id \in Ids(chatSessions) :
                   (handleChatSelect(id) \/ handleKeyDown(id) \/ handleDeleteChat(id)) =>
                       highlightedMessageId' = NULL
            /\ handleNewChatClick => highlightedMessageId' = NULL ]_vars

\* the active chat is the source chat of a block dropped from a chat other
\* than the initial one, the block's source message is highlighted, and no
\* transfer is pending
C13_Witness ==
    /\ highlightedMessageId # NULL
    /\ currentChatId # "project-discussion"
    /\ \E n \in Elems(nodes) :
           /\ n.sourceChatId = currentChatId
           /\ n.sourceMessageId = highlightedMessageId
    /\ \E n \in Elems(nodes) : n.sourceChatId # currentChatId
    /\ BridgeEmpty

\* the four handle coordinates of a block, written out
HandleCoordinates(b) ==
    { << b.x + b.width \div 2, b.y >>,
      << b.x + b.width, b.y + b.height \div 2 >>,
      << b.x + b.width \div 2, b.y + b.height >>,
      << b.x, b.y + b.height \div 2 >> }

\* C14: a handle click on block A records A and the coordinate of the handle
\* clicked, which is one of A's four handle coordinates and never A's centre;
\* the mousedown on a different existing block B that completes the gesture
\* appends exactly one connection with from = A, to = B, fromPoint = the
\* recorded handle coordinate and toPoint = (B.x + B.width/2, B.y + B.height/2);
\* every other connection is kept as it is, and no connection has from = to.
C14_ConnectionGesture ==
    [][ /\ \A a \in Ids(nodes) : \A k \in 1..MaxHandle :
              handleConnectionStart(a, k) =>
                  LET A == Find(nodes, a)
                  IN  /\ connectingFrom' = a
                      /\ connectionStart' \in HandleCoordinates(A)
                      /\ connectionStart' # << A.x + A.width \div 2, A.y + A.height \div 2 >>
                      /\ \A j \in 1..MaxHandle : j # k =>
                             ~ handleConnectionStart(a, j)
        /\ \A b \in Ids(nodes) : \A pt \in MousePoints :
              (handleBlockMouseDown(b, pt) /\ connectingFrom # NULL /\ connectingFrom # b
                    /\ HasId(nodes, connectingFrom)) =>
                  LET B == Find(nodes, b)
                      n == Len(connections)
                  IN  /\ Len(connections') = n + 1
                      /\ SubSeq(connections', 1, n) = connections
                      /\ connections'[n + 1].from = connectingFrom
                      /\ connections'[n + 1].to = b
                      /\ connections'[n + 1].fromPoint = connectionStart
                      /\ connections'[n + 1].toPoint =
                             << B.x + B.width \div 2, B.y + B.height \div 2 >>
                      /\ connectingFrom' = NULL
        /\ Len(connections') > Len(connections) => connClock' # connClock
        /\ \A i \in 1..Len(connections') : connections'[i].from # connections'[i].to
      ]_vars

\* a connection was created from a handle of one block to the centre of
\* another block that lies somewhere else on the canvas
C14_Witness ==
    /\ Len(connections) = 1
    /\ Len(nodes) = 2
    /\ connections[1].from = nodes[1].id
    /\ connections[1].to = nodes[2].id
    /\ connections[1].fromPoint \in HandleCoordinates(nodes[1])
    /\ connections[1].toPoint =
           << nodes[2].x + nodes[2].width \div 2, nodes[2].y + nodes[2].height \div 2 >>
    /\ << nodes[1].x, nodes[1].y >> # << nodes[2].x, nodes[2].y >>
    /\ connectingFrom = NULL
    /\ draggingNode = NULL

\* the pointer modes that are active in the current state
ActiveModes ==
    { m \in {"panning", "dragging-block", "resizing-block", "connecting"} :
        \/ m = "panning" /\ isPanning
        \/ m = "dragging-block" /\ draggingNode # NULL
        \/ m = "resizing-block" /\ resizingNode # NULL
        \/ m = "connecting" /\ connectingFrom # NULL }

\* C15: the pointer modes are mutually exclusive: at most one of panning,
\* dragging-block, resizing-block and connecting is active in every reachable
\* state.
C15_ModesExclusive == Cardinality(ActiveModes) <= 1

\* C16: a zoom-in button action multiplies the zoom factor by 1.2, capped at
\* 3.0, and a zoom-out action divides it by 1.2, floored at 0.5 (to within half
\* a unit of the last digit kept); three zoom-in actions from 1.0 give 1.2,
\* 1.44 and 1.728.
C16_ZoomButtons ==
    [][ /\ handleZoomIn =>
              /\ 12 * zoom <= 10 * ZoomMax =>
                     /\ 10 * zoom' - 12 * zoom <= 5
                     /\ 12 * zoom - 10 * zoom' <= 5
              /\ 12 * zoom > 10 * ZoomMax => zoom' = ZoomMax
              /\ zoom = ZoomScale => 1000 * zoom' = 1200 * ZoomScale
              /\ 1000 * zoom = 1200 * ZoomScale => 1000 * zoom' = 1440 * ZoomScale
              /\ 1000 * zoom = 1440 * ZoomScale => 1000 * zoom' = 1728 * ZoomScale
        /\ handleZoomOut =>
              /\ 10 * zoom >= 12 * ZoomMin =>
                     /\ 12 * zoom' - 10 * zoom <= 6
                     /\ 10 * zoom - 12 * zoom' <= 6
              /\ 10 * zoom < 12 * ZoomMin => zoom' = ZoomMin
      ]_vars

\* the zoom factor after three zoom-in actions from 1.0
C16_Witness == 1000 * zoom = 1728 * ZoomScale

\* C17: a wheel notch multiplies the zoom factor by 1.1 (zoom in) or divides
\* it by 1.1 (zoom out), clamped to [0.5, 3.0]; away from the clamps a notch
\* out undoes a notch in (to within one unit of the last digit kept).
C17_WheelNotch ==
    [][ /\ handleWheel(FALSE) =>
              /\ 11 * zoom <= 10 * ZoomMax =>
                     /\ 10 * zoom' - 11 * zoom <= 5
                     /\ 11 * zoom - 10 * zoom' <= 5
              /\ 11 * zoom > 10 * ZoomMax => zoom' = ZoomMax
        /\ handleWheel(TRUE) =>
              /\ 10 * zoom >= 11 * ZoomMin =>
                     /\ 11 * zoom' - 10 * zoom <= 6
                     /\ 10 * zoom - 11 * zoom' <= 6
              /\ 10 * zoom < 11 * ZoomMin => zoom' = ZoomMin
              /\ \A z \in ZoomMin..ZoomMax :
                     (11 * z < 10 * ZoomMax /\ Scale(z, 11, 10) = zoom /\ 10 * zoom > 11 * ZoomMin)
                         => (zoom' - z <= 1 /\ z - zoom' <= 1)
      ]_vars

\* the pixels lost by the two truncating divisions of a round trip
RoundingSlack == ZoomMax \div ZoomScale + 1

Near(p, q) ==
    /\ p[1] - q[1] <= RoundingSlack /\ q[1] - p[1] <= RoundingSlack
    /\ p[2] - q[2] <= RoundingSlack /\ q[2] - p[2] <= RoundingSlack

\* C18: for every reachable pan offset and zoom factor, a screen coordinate
\* converted to canvas space by the handlers' formula and mapped back by the
\* rendering transform is the original screen coordinate (up to rounding).
C18_ScreenCanvasRoundTrip ==
    \A pt \in MousePoints : Near(ToScreen(ToCanvas(pt)), pt)

\* C19: a click on a block with a recorded source message makes that message
\* the highlighted one and the block's source chat the active chat; a click on
\* a block without a recorded source changes neither; and a highlight that is
\* set is eventually cleared (highlightedMessageId returns to null).
C19_ClickHighlights ==
    /\ [][ \A b \in Ids(nodes) :
              handleBlockClick(b) =>
                  LET n == Find(nodes, b)
                  IN  IF n.sourceMessageId # UNDEFINED /\ n.sourceMessageId # ""
                        THEN /\ highlightedMessageId' = n.sourceMessageId
                             /\ currentChatId' = n.sourceChatId
                        ELSE UNCHANGED <<currentChatId, highlightedMessageId>>
         ]_vars
    /\ (highlightedMessageId # NULL) ~> (highlightedMessageId = NULL)

\* a click on a block has brought back the chat the block came from and
\* highlighted its source message
C19_Witness ==
    /\ highlightedMessageId # NULL
    /\ \E i \in 1..Len(nodes) :
           /\ nodes[i].sourceMessageId = highlightedMessageId
           /\ nodes[i].sourceChatId = currentChatId
    /\ \E i \in 1..Len(chatSessions) :
           /\ chatSessions[i].id = currentChatId
           /\ \E j \in 1..Len(chatSessions[i].messages) :
                  chatSessions[i].messages[j].id = highlightedMessageId
    /\ chatClock > 0

\* C20: exactly one canvas is active: currentCanvasId is the id of exactly one
\* canvas of the list in every reachable state; when the active canvas is
\* deleted, the first remaining canvas becomes the active one and its stored
\* blocks and connections become the working state.
C20_ActiveCanvasListed ==
    /\ [](Cardinality({ i \in 1..Len(canvases) : canvases[i].id = currentCanvasId }) = 1)
    /\ [][ \A id \in Ids(canvases) :
              (handleCanvasDelete(id) /\ id = currentCanvasId /\ Len(canvases) > 1) =>
                  LET remaining == SelectSeq(canvases, LAMBDA c : c.id # id)
                  IN  /\ canvases' = remaining
                      /\ currentCanvasId' = remaining[1].id
                      /\ nodes' = remaining[1].nodes
                      /\ connections' = remaining[1].connections
         ]_vars

\* the default canvas is gone and the canvas created later is the active one,
\* with the block stored in it as the working state
C20_Witness ==
    /\ Len(canvases) = 1
    /\ currentCanvasId = CanvasId(1)
    /\ canvases[1].id = currentCanvasId
    /\ Len(nodes) = 1
    /\ canvases[1].nodes = nodes
    /\ lastLeft # <<>>
    /\ lastLeft[1].id = "default-canvas"

\* C21: handleNewCanvas appends one canvas without blocks and connections
\* and makes it the active canvas: afterwards currentCanvasId is the new
\* canvas's id, the working blocks and connections are empty, and the armed
\* connection and the selection are cleared.
C21_NewCanvasActive ==
    [][ handleNewCanvas =>
            LET n == Len(canvases)
            IN  /\ Len(canvases') = n + 1
                /\ SubSeq(canvases', 1, n) = canvases
                /\ canvases'[n + 1].nodes = <<>>
                /\ canvases'[n + 1].connections = <<>>
                /\ currentCanvasId' = canvases'[n + 1].id
                /\ nodes' = <<>>
                /\ connections' = <<>>
                /\ connectingFrom' = NULL
                /\ connectionStart' = NoPoint
                /\ selectedNode' = NULL
      ]_vars

\* C22: in every reachable state the active chat id is the id of a session of
\* the chat-session list (so that a message sent has a chat to go to).
C22_ActiveChatListed == HasId(chatSessions, currentChatId)

C24_ToPointIsCentre ==
    \A j \in 1..Len(connections) :
        HasId(nodes, connections[j].to) =>
            LET B == Find(nodes, connections[j].to)
            IN  connections[j].toPoint = << B.x + B.width \div 2, B.y + B.height \div 2 >>

\* the target block of a connection has been resized and moved since it was
\* dropped, and the connection still ends at its centre
C24_Witness ==
    /\ Len(connections) = 1
    /\ Len(nodes) = 2
    /\ LET B == Find(nodes, connections[1].to)
           A == Find(nodes, connections[1].from)
       IN  /\ connections[1].toPoint = << B.x + B.width \div 2, B.y + B.height \div 2 >>
           /\ B.width = maxWidth
           /\ B.x # A.x
           /\ A.width < maxWidth
    /\ ~buttonDown

\* C25: a mousedown on the empty canvas cancels an armed connection
\* (connectingFrom and connectionStart become null) and creates no
\* connection; so does the selection of a canvas; and a mousedown on a block
\* other than the armed one leaves connectingFrom and connectionStart null,
\* whether it created a connection (one more) or not (none).
C25_ConnectingCancelled ==
    [][ /\ \A pt \in PressPoints :
              handleCanvasMouseDown(pt) =>
                  /\ connectingFrom' = NULL /\ connectionStart' = NoPoint
                  /\ connections' = connections /\ connClock' = connClock
        /\ \A id \in Ids(canvases) :
              handleCanvasSelect(id) =>
                  /\ connectingFrom' = NULL /\ connectionStart' = NoPoint
                  /\ connClock' = connClock
                  /\ connections' = Find(canvases, id).connections
        /\ \A b \in Ids(nodes) : \A pt \in PressPoints :
              (handleBlockMouseDown(b, pt) /\ connectingFrom # NULL /\ connectingFrom # b) =>
                  /\ connectingFrom' = NULL /\ connectionStart' = NoPoint
                  /\ IF HasId(nodes, connectingFrom)
                       THEN Len(connections') = Len(connections) + 1
                       ELSE connections' = connections
      ]_vars

\* the mouse is held down on the second block of a connection gesture that
\* has just created the connection: nothing is armed, no pointer mode is on,
\* and the block the gesture started at is still the selected one
C25_Witness ==
    /\ buttonDown
    /\ draggingNode = NULL /\ ~isPanning /\ resizingNode = NULL
    /\ connectingFrom = NULL /\ connectionStart = NoPoint
    /\ Len(connections) = 1
    /\ selectedNode = connections[1].from

\* the messages of every chat that stays in the list are kept, in order, at
\* the front of its list
AppendOnly ==
    \A i \in 1..Len(chatSessions) : \A j \in 1..Len(chatSessions') :
        chatSessions[i].id = chatSessions'[j].id =>
            /\ Len(chatSessions'[j].messages) >= Len(chatSessions[i].messages)
            /\ SubSeq(chatSessions'[j].messages, 1, Len(chatSessions[i].messages))
                   = chatSessions[i].messages

\* C26: every chat's message list is append-only; a send of a non-blank input
\* appends exactly one user message, the trimmed input, at the end of the
\* active chat's list and leaves every other chat as it is; a send of an empty
\* or white-space input appends nothing and schedules no reply.
C26_SendAppendsOne ==
    [][ /\ AppendOnly
        /\ \A input \in Inputs :
              handleSendMessage(input) =>
                  IF Trim(input) # ""
                    THEN /\ Len(chatSessions') = Len(chatSessions)
                         /\ \E i \in 1..Len(chatSessions) :
                                /\ chatSessions[i].id = currentChatId
                                /\ LET old == chatSessions[i].messages
                                       new == chatSessions'[i].messages
                                   IN  /\ Len(new) = Len(old) + 1
                                       /\ SubSeq(new, 1, Len(old)) = old
                                       /\ new[Len(new)].type = "user"
                                       /\ new[Len(new)].content = Trim(input)
                                /\ \A j \in 1..Len(chatSessions) :
                                       j # i => chatSessions'[j] = chatSessions[j]
                         /\ Cardinality(replyTimers') = Cardinality(replyTimers) + 1
                    ELSE /\ chatSessions' = chatSessions
                         /\ replyTimers' = replyTimers
      ]_vars

\* the positions of the messages sent by the user (not the initial ones), of
\* the replies, and the timers pending for a chat
SentAt(chat) ==
    { p \in 1..Len(chat.messages) :
        chat.messages[p].type = "user" /\ chat.messages[p].content # "seed" }

RepliesAt(chat) ==
    { p \in 1..Len(chat.messages) :
        chat.messages[p].type = "ai" /\ chat.messages[p].content # "seed" }

PendingFor(chat) == { t \in replyTimers : t.chatId = chat.id }

\* the user message msg-n is in a listed chat and its reply timer is pending
Waiting(n) ==
    \E i \in 1..Len(chatSessions) :
        /\ \E p \in SentAt(chatSessions[i]) : chatSessions[i].messages[p].id = MsgId(n)
        /\ \E t \in PendingFor(chatSessions[i]) : t.userMessageId = MsgId(n)

\* the user message msg-n is in a listed chat, followed by as many replies
\* as there are user messages from it on, and no timer is pending for it
Replied(n) ==
    \E i \in 1..Len(chatSessions) :
        LET chat == chatSessions[i]
        IN  /\ \E p \in SentAt(chat) :
                   /\ chat.messages[p].id = MsgId(n)
                   /\ \E q \in RepliesAt(chat) : q > p
            /\ ~ \E t \in replyTimers : t.userMessageId = MsgId(n)

Listed(n) ==
    \E i \in 1..Len(chatSessions) :
        \E p \in SentAt(chatSessions[i]) : chatSessions[i].messages[p].id = MsgId(n)

\* C27: every user message sent in a chat gets exactly one assistant reply:
\* in each listed chat the user messages sent are as many as the replies
\* appended plus the reply timers pending; the timer of a message, when it
\* fires, appends one assistant message at the end of the chat of the message,
\* hence after it; and a message waiting for its reply is eventually replied
\* to, unless its chat is deleted.
C27_OneReplyEach ==
    /\ [](\A i \in 1..Len(chatSessions) :
             Cardinality(SentAt(chatSessions[i]))
                 = Cardinality(RepliesAt(chatSessions[i]))
                       + Cardinality(PendingFor(chatSessions[i])))
    /\ [][ \A t \in replyTimers :
              (ReplyTimersFire /\ t \notin replyTimers') =>
                  /\ replyTimers' = replyTimers \ {t}
                  /\ \A i \in 1..Len(chatSessions) :
                         IF chatSessions[i].id = t.chatId
                           THEN LET old == chatSessions[i].messages
                                    new == chatSessions'[i].messages
                                IN  /\ Len(new) = Len(old) + 1
                                    /\ SubSeq(new, 1, Len(old)) = old
                                    /\ new[Len(new)].type = "ai"
                                    /\ \E p \in 1..Len(old) : old[p].id = t.userMessageId
                           ELSE chatSessions'[i] = chatSessions[i]
         ]_vars
    /\ \A n \in 1..(2 * MaxSends) : Waiting(n) ~> (Replied(n) \/ ~Listed(n))

\* two messages were sent one after the other in a chat and both replies
\* have arrived since
C27_Witness ==
    /\ replyTimers = {}
    /\ \E i \in 1..Len(chatSessions) :
           /\ Cardinality(SentAt(chatSessions[i])) = 2
           /\ Cardinality(RepliesAt(chatSessions[i])) = 2
           /\ \E p \in SentAt(chatSessions[i]) : p + 1 \in SentAt(chatSessions[i])

\* C28: the typing indicator is on exactly while at least one reply is still
\* pending.
C28_TypingWhilePending == isTyping <=> (replyTimers # {})

\* the left panel leaves room for both panels
WithinConstraints ==
    /\ minLeftWidth <= leftPanelWidth
    /\ leftPanelWidth <= containerWidth - minRightWidth

\* C29: for every container width and every stored left-panel width the
\* constraint effect settles: whenever the left-panel width is outside
\* [400, containerWidth - 450], it is eventually inside.
C29_ConstraintSettles == (~WithinConstraints) ~> WithinConstraints

\* C30: the deletion of a chat removes exactly that session from the list
\* and keeps the others in their order; if the deleted chat was not the
\* active one the active chat id is unchanged, and if it was, the active chat
\* id becomes the id of the first remaining session; in both cases the active
\* chat is not the deleted one afterwards.
C30_DeleteChat ==
    [][ \A id \in Ids(chatSessions) :
          (handleDeleteChat(id) /\ Len(chatSessions) > 1) =>
              /\ Len(chatSessions') = Len(chatSessions) - 1
              /\ \A i \in 1..Len(chatSessions') : chatSessions'[i].id # id
              /\ \A i \in 1..Len(chatSessions) : \A j \in 1..Len(chatSessions) :
                     (i < j /\ chatSessions[i].id # id /\ chatSessions[j].id # id) =>
                         \E a \in 1..Len(chatSessions') : \E b \in 1..Len(chatSessions') :
                             /\ a < b
                             /\ chatSessions'[a] = chatSessions[i]
                             /\ chatSessions'[b] = chatSessions[j]
              /\ IF currentChatId = id
                   THEN currentChatId' = chatSessions'[1].id
                   ELSE currentChatId' = currentChatId
              /\ currentChatId' # id
      ]_vars

\* the chat the program starts in has been deleted and the first of the
\* remaining chats is the active one
C30_Witness ==
    /\ ~HasId(chatSessions, "project-discussion")
    /\ Len(chatSessions) = Len(InitialChats) - 1
    /\ chatClock = 0
    /\ currentChatId = chatSessions[1].id
    /\ highlightedMessageId = NULL
    /\ nodes = <<>>

====
